---- MODULE Spec2Model ----
(***************************************************************************)
(* The attendance editor of the teacher portal (TeacherAttendance.tsx) as  *)
(* a state machine: the component's React state, the roster fetches and    *)
(* the markAttendance requests in flight, and the attendance service the   *)
(* requests are answered by.                                               *)
(***************************************************************************)
EXTENDS Integers, Sequences, FiniteSets, TLC

(* ------------------------------------------------------------------ *)
(* Bounds of the model                                                 *)
(* ------------------------------------------------------------------ *)

\* getAttendanceStudents and markAttendance requests sent in one behaviour
MaxRequests == 3

(* ------------------------------------------------------------------ *)
(* Values                                                              *)
(* ------------------------------------------------------------------ *)

\* useState('') of selectedClassId and selectedSectionId
NoClass == ""

NoSection == ""

\* the status enumeration of an attendance record
Status == {"PRESENT", "ABSENT", "LATE", "HALF_DAY", "EXCUSED"}

\* the statuses the four checkboxes of a table row can set
CheckboxStatuses == {"PRESENT", "ABSENT", "LATE", "EXCUSED"}

\* the statuses of the two Quick Mark buttons
MarkAllStatuses == {"PRESENT", "ABSENT"}

\* the dates the date input can hold: today (the initial value) and an earlier day
Today == "2024-01-02"

Dates == {"2024-01-01", Today}

\* what getAssignedClasses answers: the teacher's classes, each with its sections
AssignedClasses ==
    << [classId |-> "c1", sections |-> {"secA"}],
       [classId |-> "c2", sections |-> {}] >>

\* an AttendanceStudent of the roster fetch
AttendanceStudent(id, roll, first, last, default) ==
    [id |-> id, rollNumber |-> roll, firstName |-> first, lastName |-> last,
     defaultStatus |-> default]

\* the value of a property the response does not carry
Undefined == "undefined"

\* what getAttendanceStudents(classId, sectionId) answers. The response is
\* used as it arrives: the roster of section secA comes without a default
\* status, the roster of class c2 lists one student twice
ServerRoster(classId, sectionId) ==
    IF classId = "c1" /\ sectionId = NoSection
    THEN << AttendanceStudent("s1", "1", "Ann", "A", "PRESENT"),
            AttendanceStudent("s2", "2", "Bob", "B", "ABSENT") >>
    ELSE IF classId = "c1"
    THEN << AttendanceStudent("s1", "1", "Ann", "A", Undefined) >>
    ELSE << AttendanceStudent("s3", "3", "Cat", "C", "PRESENT"),
            AttendanceStudent("s3", "3", "Cat", "C", "PRESENT") >>

(* ------------------------------------------------------------------ *)
(* State                                                               *)
(* ------------------------------------------------------------------ *)

VARIABLES
    classes,            \* useState<any[]>([])
    selectedClassId,    \* useState('')
    selectedSectionId,  \* useState('')
    attendanceDate,     \* useState(today)
    students,           \* useState<StudentAttendance[]>([])
    isSaving,           \* useState(false)
    isLoading,          \* useState(false)
    hasChanges,         \* useState(false)
    saveToast,          \* the toast handleSaveAttendance showed last
    classesPending,     \* the getAssignedClasses call of the mount effect is outstanding
    loadRequests,       \* the getAttendanceStudents calls outstanding
    saveRequests,       \* the markAttendance calls outstanding
    requestsSent,       \* number of getAttendanceStudents and markAttendance calls made
    recorded,           \* service: the contexts that have a recorded submission
    confirmed,          \* history: per row of students, the status the service last
                        \* confirmed, or the default the row was loaded with
    loadedCtx,          \* history: the context the rows of students were fetched for
    mounted,            \* the component is on the page
    tokensStored,       \* tokenStorage: the tokens and whether they are kept across sessions
    storedUser,         \* userStorage
    rememberFlag,       \* sessionStorage 'auth_remember_me'
    otpSession,         \* sessionStorage 'auth_session_id', 'auth_user_id', 'auth_email' are set
    authCall,           \* the call of AuthService that is outstanding
    tokensIssued,       \* number of token pairs the server has issued
    currentMonth,       \* ExaminationDashboard: useState(new Date().getMonth())
    currentYear         \* ExaminationDashboard: useState(new Date().getFullYear())

vars == << classes, selectedClassId, selectedSectionId, attendanceDate, students,
           isSaving, isLoading, hasChanges, saveToast, classesPending, loadRequests,
           saveRequests, requestsSent, recorded, confirmed, loadedCtx, mounted,
           tokensStored, storedUser, rememberFlag, otpSession, authCall, tokensIssued,
           currentMonth, currentYear >>

\* the storage and the outstanding call of the authentication flow
authVars == << tokensStored, storedUser, rememberFlag, otpSession, authCall, tokensIssued >>

\* the month the calendar of the examination dashboard shows
calendarVars == << currentMonth, currentYear >>

\* empty token storage and empty user storage
NoTokens == [access |-> 0, persistent |-> FALSE]

NoUser == ""

\* no call of AuthService is outstanding
NoCall == [kind |-> "none", rememberMe |-> FALSE]

\* the month and the year of Today, as Date.getMonth and Date.getFullYear
\* give them
ThisMonth == 0

ThisYear == 2024

component == << classes, selectedClassId, selectedSectionId, attendanceDate,
                students, isSaving, isLoading, hasChanges, saveToast >>

\* the attendance page: the component, its calls and the service behind them
attendanceVars == << component, classesPending, loadRequests, saveRequests, requestsSent,
                     recorded, confirmed, loadedCtx, mounted >>

\* a toast: its level and its message
Toast(level, message) == [level |-> level, message |-> message]

NoToast == Toast("none", "")

\* the submission scope: class, section and date
Ctx(classId, sectionId, date) ==
    [classId |-> classId, sectionId |-> sectionId, attendanceDate |-> date]

\* the context selected in the filters
Context == Ctx(selectedClassId, selectedSectionId, attendanceDate)

\* the context a markAttendance request is for
RequestCtx(r) == Ctx(r.classId, r.sectionId, r.attendanceDate)

Init ==
    /\ classes = << >>
    /\ selectedClassId = NoClass
    /\ selectedSectionId = NoSection
    /\ attendanceDate = Today
    /\ students = << >>
    /\ isSaving = FALSE
    /\ isLoading = FALSE
    /\ hasChanges = FALSE
    /\ saveToast = NoToast
    /\ classesPending = TRUE
    /\ loadRequests = {}
    /\ saveRequests = {}
    /\ requestsSent = 0
    /\ recorded = {}
    /\ confirmed = << >>
    /\ loadedCtx = Ctx(NoClass, NoSection, Today)
    /\ mounted = TRUE
    /\ tokensStored = NoTokens
    /\ storedUser = NoUser
    /\ rememberFlag = "absent"
    /\ otpSession = FALSE
    /\ authCall = NoCall
    /\ tokensIssued = 0
    /\ currentMonth = ThisMonth
    /\ currentYear = ThisYear

(* ------------------------------------------------------------------ *)
(* loadClasses and the two effects                                     *)
(* ------------------------------------------------------------------ *)

\* loadStudents up to its await: the flag is raised and the fetch is sent with
\* the class and section of the render the effect belongs to
LoadStudentsStart(classId, sectionId) ==
    /\ requestsSent < MaxRequests
    /\ isLoading' = TRUE
    /\ loadRequests' = loadRequests \cup
           {[id |-> requestsSent + 1, classId |-> classId, sectionId |-> sectionId]}
    /\ requestsSent' = requestsSent + 1

\* the effect on [selectedClassId, selectedSectionId]: it runs when one of the
\* two changed, and loads the roster when a class is selected
ReloadEffect(classId, sectionId) ==
    IF << classId, sectionId >> # << selectedClassId, selectedSectionId >>
       /\ classId # NoClass
    THEN LoadStudentsStart(classId, sectionId)
    ELSE UNCHANGED << isLoading, loadRequests, requestsSent >>

\* loadClasses after its await resolved: the classes are stored and the first
\* one is selected, which runs the reload effect
LoadClassesResolved ==
    /\ classesPending
    /\ classesPending' = FALSE
    /\ classes' = AssignedClasses
    /\ selectedClassId' =
           IF Len(AssignedClasses) > 0 THEN AssignedClasses[1].classId
           ELSE selectedClassId
    /\ ReloadEffect(selectedClassId', selectedSectionId)
    /\ UNCHANGED << authVars, calendarVars, mounted, saveToast, selectedSectionId, attendanceDate, students, isSaving,
                    hasChanges, saveRequests, recorded, confirmed,
                    loadedCtx >>

\* loadClasses after its await rejected: a toast, no state change
LoadClassesRejected ==
    /\ classesPending
    /\ classesPending' = FALSE
    /\ UNCHANGED << authVars, calendarVars, mounted, component, loadRequests, saveRequests, requestsSent,
                    recorded, confirmed, loadedCtx >>

(* ------------------------------------------------------------------ *)
(* The filters                                                         *)
(* ------------------------------------------------------------------ *)

\* the class Select: the class is set and the section is cleared
SelectClass(value) ==
    /\ \E i \in DOMAIN classes : classes[i].classId = value
    /\ selectedClassId' = value
    /\ selectedSectionId' = NoSection
    /\ ReloadEffect(value, NoSection)
    /\ UNCHANGED << authVars, calendarVars, mounted, saveToast, classes, attendanceDate, students, isSaving, hasChanges,
                    classesPending, saveRequests, recorded, confirmed,
                    loadedCtx >>

\* the sections the section Select offers: it is rendered when the selected
\* class has sections, with "All sections" as the empty value
SectionChoices ==
    UNION { IF classes[i].classId = selectedClassId /\ classes[i].sections # {}
            THEN classes[i].sections \cup {NoSection} ELSE {} : i \in DOMAIN classes }

\* the section Select
SelectSection(value) ==
    /\ value \in SectionChoices
    /\ value # selectedSectionId
    /\ selectedSectionId' = value
    /\ ReloadEffect(selectedClassId, value)
    /\ UNCHANGED << authVars, calendarVars, mounted, saveToast, classes, selectedClassId, attendanceDate, students, isSaving,
                    hasChanges, classesPending, saveRequests, recorded,
                    confirmed, loadedCtx >>

\* the date input: only the date is set; no effect depends on it
SetAttendanceDate(value) ==
    /\ value \in Dates
    /\ value # attendanceDate
    /\ attendanceDate' = value
    /\ UNCHANGED << authVars, calendarVars, mounted, saveToast, classes, selectedClassId, selectedSectionId, students, isSaving,
                    isLoading, hasChanges, classesPending, loadRequests,
                    saveRequests, requestsSent, recorded, confirmed,
                    loadedCtx >>

(* ------------------------------------------------------------------ *)
(* loadStudents after its await                                        *)
(* ------------------------------------------------------------------ *)

\* the rows made of the students of a roster response
MappedStudents(studentsData) ==
    [i \in DOMAIN studentsData |->
        [id |-> studentsData[i].id,
         rollNumber |-> studentsData[i].rollNumber,
         firstName |-> studentsData[i].firstName,
         lastName |-> studentsData[i].lastName,
         status |-> studentsData[i].defaultStatus]]

\* the dirty indicator after a roster has been stored
HasChangesAfterLoad == hasChanges

\* loadStudents after the fetch resolved: the rows are replaced, the loading
\* flag is lowered
LoadStudentsResolved(r) ==
    /\ r \in loadRequests
    /\ loadRequests' = loadRequests \ {r}
    /\ students' = MappedStudents(ServerRoster(r.classId, r.sectionId))
    /\ hasChanges' = HasChangesAfterLoad
    /\ isLoading' = FALSE
    /\ confirmed' = [i \in DOMAIN students' |-> students'[i].status]
    /\ loadedCtx' = Ctx(r.classId, r.sectionId, attendanceDate)
    /\ saveRequests' = {[s EXCEPT !.stale = TRUE] : s \in saveRequests}
    /\ UNCHANGED << authVars, calendarVars, mounted, saveToast, classes, selectedClassId, selectedSectionId, attendanceDate,
                    isSaving, classesPending, requestsSent, recorded >>

\* loadStudents after the fetch rejected: a toast, the loading flag is lowered
LoadStudentsRejected(r) ==
    /\ r \in loadRequests
    /\ loadRequests' = loadRequests \ {r}
    /\ isLoading' = FALSE
    /\ UNCHANGED << authVars, calendarVars, mounted, saveToast, classes, selectedClassId, selectedSectionId, attendanceDate,
                    students, isSaving, hasChanges, classesPending, saveRequests,
                    requestsSent, recorded, confirmed, loadedCtx >>

(* ------------------------------------------------------------------ *)
(* Edits                                                               *)
(* ------------------------------------------------------------------ *)

\* a map that gives the status to every row
StatusChangedEveryRow(prev, studentId, status) ==
    [i \in DOMAIN prev |-> [prev[i] EXCEPT !.status = status]]

\* prev.map(s => s.id === studentId ? { ...s, status } : s)
StatusChanged(prev, studentId, status) ==
    [i \in DOMAIN prev |->
        IF prev[i].id = studentId THEN [prev[i] EXCEPT !.status = status]
        ELSE prev[i]]

\* handleStatusChange: the rows are mapped and the dirty indicator is raised
StatusChange(studentId, status) ==
    /\ students' = StatusChanged(students, studentId, status)
    /\ hasChanges' = TRUE
    /\ UNCHANGED << authVars, calendarVars, mounted, saveToast, classes, selectedClassId, selectedSectionId, attendanceDate,
                    isSaving, isLoading, classesPending, loadRequests,
                    saveRequests, requestsSent, recorded, confirmed,
                    loadedCtx >>

\* a checkbox of a row of the table: handleStatusChange with the id of the
\* row and the status of the column
HandleStatusChange(studentId, status) ==
    /\ \E i \in DOMAIN students : students[i].id = studentId
    /\ status \in CheckboxStatuses
    /\ StatusChange(studentId, status)

\* a map that leaves the first row out
MarkedAllButFirst(prev, status) ==
    [i \in DOMAIN prev |-> IF i = 1 THEN prev[i] ELSE [prev[i] EXCEPT !.status = status]]

\* a map that stops after the first row
MarkedOnlyFirst(prev, status) ==
    [i \in DOMAIN prev |-> IF i = 1 THEN [prev[i] EXCEPT !.status = status] ELSE prev[i]]

\* prev.map(s => ({ ...s, status }))
MarkedAll(prev, status) ==
    [i \in DOMAIN prev |-> [prev[i] EXCEPT !.status = status]]

\* the Quick Mark buttons
HandleMarkAll(status) ==
    /\ status \in MarkAllStatuses
    /\ students' = MarkedAll(students, status)
    /\ hasChanges' = TRUE
    /\ UNCHANGED << authVars, calendarVars, mounted, saveToast, classes, selectedClassId, selectedSectionId, attendanceDate,
                    isSaving, isLoading, classesPending, loadRequests,
                    saveRequests, requestsSent, recorded, confirmed,
                    loadedCtx >>

(* ------------------------------------------------------------------ *)
(* handleSaveAttendance                                                *)
(* ------------------------------------------------------------------ *)

\* a button that is disabled={!hasChanges} only
SaveButtonIgnoresSaving == hasChanges

\* the Save Attendance button is disabled={!hasChanges || isSaving}
SaveButtonEnabled == hasChanges /\ ~isSaving

\* a body that carries entries only for the rows whose status differs from
\* the confirmed one
MarkAttendanceRequestOfChangedRows ==
    LET changed == {i \in DOMAIN students : students[i].status # confirmed[i]}
        nth(k) == CHOOSE i \in changed : Cardinality({j \in changed : j <= i}) = k
    IN  [classId |-> selectedClassId,
         sectionId |-> selectedSectionId,
         attendanceDate |-> attendanceDate,
         allowOverride |-> FALSE,
         entries |-> [k \in 1..Cardinality(changed) |->
                         [studentId |-> students[nth(k)].id,
                          status |-> students[nth(k)].status]]]

\* the body handed to teacherService.markAttendance: the selected class,
\* section and date and one entry per row; allowOverride is never set
MarkAttendanceRequest ==
    [classId |-> selectedClassId,
     sectionId |-> selectedSectionId,
     attendanceDate |-> attendanceDate,
     allowOverride |-> FALSE,
     entries |-> [i \in DOMAIN students |->
                     [studentId |-> students[i].id, status |-> students[i].status]]]

\* a markAttendance call in flight: the request, its number, where it is
\* (pending at the service, or answered) and, as history, the context the
\* rows it was built from were fetched for and whether they have since been
\* replaced
SentRequest(request, id) ==
    [id |-> id, request |-> request, phase |-> "pending", accepted |-> {},
     bufferCtx |-> loadedCtx, stale |-> FALSE]

\* handleSaveAttendance up to its await: without a class it returns after a
\* toast; otherwise the saving flag is raised and one request is sent
SaveAttendance ==
    /\ IF selectedClassId = NoClass
       THEN /\ saveToast' = Toast("error", "Please select a class")
            /\ UNCHANGED << isSaving, saveRequests, requestsSent >>
       ELSE /\ requestsSent < MaxRequests
            /\ isSaving' = TRUE
            /\ saveToast' = saveToast
            /\ saveRequests' = saveRequests \cup
                   {SentRequest(MarkAttendanceRequest, requestsSent + 1)}
            /\ requestsSent' = requestsSent + 1
    /\ UNCHANGED << authVars, calendarVars, mounted, classes, selectedClassId, selectedSectionId, attendanceDate,
                    students, isLoading, hasChanges, classesPending, loadRequests,
                    recorded, confirmed, loadedCtx >>

\* a click on the Save Attendance button
HandleSaveAttendance ==
    /\ SaveButtonEnabled
    /\ SaveAttendance

(* ------------------------------------------------------------------ *)
(* The attendance service                                              *)
(* ------------------------------------------------------------------ *)

\* ReconciliationPolicy.mayResubmit
MayResubmit(allowOverride, priorSubmissionExists) ==
    allowOverride \/ ~priorSubmissionExists

\* the service accepts a request: all of its entries or a subset of them
\* (markedCount is the number accepted), and the context is now recorded
ServiceAccepts(r, accepted) ==
    /\ r \in saveRequests
    /\ r.phase = "pending"
    /\ MayResubmit(r.request.allowOverride, RequestCtx(r.request) \in recorded)
    /\ accepted \subseteq DOMAIN r.request.entries
    /\ saveRequests' = (saveRequests \ {r}) \cup
           {[r EXCEPT !.phase = "ok", !.accepted = accepted]}
    /\ recorded' = IF accepted = {} THEN recorded
                   ELSE recorded \cup {RequestCtx(r.request)}
    /\ UNCHANGED << authVars, calendarVars, mounted, component, classesPending, loadRequests, requestsSent,
                    confirmed, loadedCtx >>

\* the service rejects a request for a context that is already recorded and
\* may not be overridden
ServiceRequiresOverride(r) ==
    /\ r \in saveRequests
    /\ r.phase = "pending"
    /\ ~MayResubmit(r.request.allowOverride, RequestCtx(r.request) \in recorded)
    /\ saveRequests' = (saveRequests \ {r}) \cup
           {[r EXCEPT !.phase = "override_required"]}
    /\ UNCHANGED << authVars, calendarVars, mounted, component, classesPending, loadRequests, requestsSent,
                    recorded, confirmed, loadedCtx >>

\* the request fails in transport or in the service
TransportFails(r) ==
    /\ r \in saveRequests
    /\ r.phase = "pending"
    /\ saveRequests' = (saveRequests \ {r}) \cup {[r EXCEPT !.phase = "failed"]}
    /\ UNCHANGED << authVars, calendarVars, mounted, component, classesPending, loadRequests, requestsSent,
                    recorded, confirmed, loadedCtx >>

(* ------------------------------------------------------------------ *)
(* handleSaveAttendance after its await                                *)
(* ------------------------------------------------------------------ *)

\* a success branch that leaves the dirty indicator alone
HasChangesKeptAfterSave(r) == hasChanges

\* the dirty indicator after the request resolved: setHasChanges(false)
HasChangesAfterSave(r) == FALSE

\* a catch block that clears the dirty indicator
HasChangesClearedOnFailure(r) == FALSE

\* the dirty indicator after the request rejected: the catch block sets nothing
HasChangesAfterFailure(r) == hasChanges

\* toast.error(error instanceof ApiException ? getUserFriendlyError(error) :
\* 'Failed to save attendance'): the message is made of the error alone, and
\* here it tells every error from every other
SaveErrorToast(error) == Toast("error", error)

\* the statuses the service has confirmed, once the response to r is in: an
\* accepted entry confirms its status for the row of its student, unless the
\* rows have been replaced since r was built
ConfirmedAfter(r) ==
    [i \in DOMAIN confirmed |->
        IF ~r.stale /\ \E j \in r.accepted : r.request.entries[j].studentId = students[i].id
        THEN LET j == CHOOSE k \in r.accepted :
                          r.request.entries[k].studentId = students[i].id
             IN  r.request.entries[j].status
        ELSE confirmed[i]]

\* a handler whose saving flag is lowered on the success path only
IsSavingKeptOnFailure(r) == isSaving

\* the saving flag after the finally block: setIsSaving(false)
IsSavingAfterFinally(r) == FALSE

\* the request resolved: the dirty indicator is cleared, then the finally
\* block lowers the saving flag; the response itself is not read
MarkAttendanceResolved(r) ==
    /\ r \in saveRequests
    /\ r.phase = "ok"
    /\ saveRequests' = saveRequests \ {r}
    /\ hasChanges' = HasChangesAfterSave(r)
    /\ saveToast' = Toast("success", "Attendance saved successfully!")
    /\ isSaving' = FALSE
    /\ confirmed' = ConfirmedAfter(r)
    /\ UNCHANGED << authVars, calendarVars, mounted, classes, selectedClassId, selectedSectionId, attendanceDate,
                    students, isLoading, classesPending, loadRequests, requestsSent, recorded, loadedCtx >>

\* the request rejected: the catch block shows a toast, then the finally
\* block lowers the saving flag
MarkAttendanceRejected(r) ==
    /\ r \in saveRequests
    /\ r.phase \in {"override_required", "failed"}
    /\ saveRequests' = saveRequests \ {r}
    /\ hasChanges' = HasChangesAfterFailure(r)
    /\ saveToast' = SaveErrorToast(r.phase)
    /\ isSaving' = IsSavingAfterFinally(r)
    /\ UNCHANGED << authVars, calendarVars, mounted, classes, selectedClassId, selectedSectionId, attendanceDate,
                    students, isLoading, classesPending, loadRequests, requestsSent, recorded, confirmed, loadedCtx >>

(* ------------------------------------------------------------------ *)
(* Specification                                                       *)
(* ------------------------------------------------------------------ *)

ClassIds == {AssignedClasses[i].classId : i \in DOMAIN AssignedClasses}

SectionIds ==
    UNION {AssignedClasses[i].sections : i \in DOMAIN AssignedClasses} \cup {NoSection}

StudentIds == {"s1", "s2", "s3"}

\* the checkboxes clicked in the behaviours explored
ClickedStatuses == {"PRESENT", "ABSENT"}

Next ==
    \/ LoadClassesResolved
    \/ LoadClassesRejected
    \/ \E value \in ClassIds : SelectClass(value)
    \/ \E value \in SectionIds : SelectSection(value)
    \/ \E value \in Dates : SetAttendanceDate(value)
    \/ \E r \in loadRequests : LoadStudentsResolved(r)
    \/ \E r \in loadRequests : LoadStudentsRejected(r)
    \/ \E studentId \in StudentIds, status \in ClickedStatuses :
           HandleStatusChange(studentId, status)
    \/ \E status \in MarkAllStatuses : HandleMarkAll(status)
    \/ HandleSaveAttendance
    \/ \E r \in saveRequests, accepted \in SUBSET (1..2) : ServiceAccepts(r, accepted)
    \/ \E r \in saveRequests : ServiceRequiresOverride(r)
    \/ \E r \in saveRequests : TransportFails(r)
    \/ \E r \in saveRequests : MarkAttendanceResolved(r)
    \/ \E r \in saveRequests : MarkAttendanceRejected(r)

Spec == Init /\ [][Next]_vars

(* ------------------------------------------------------------------ *)
(* Teardown: the teacher leaves the page while calls are outstanding    *)
(* ------------------------------------------------------------------ *)

\* the component is removed from the page. Neither effect returns a cleanup
\* function and no handler keeps a cancellation flag, so nothing else
\* happens: the outstanding calls stay outstanding.
Unmount ==
    /\ mounted
    /\ mounted' = FALSE
    /\ UNCHANGED << authVars, calendarVars, component, classesPending, loadRequests,
                    saveRequests, requestsSent, recorded, confirmed, loadedCtx >>

\* what runs whether or not the page is still there: the service, and the
\* rest of each async function after its await. After Unmount the component
\* variables hold the values these functions hand to the setters.
Arrival ==
    \/ LoadClassesResolved
    \/ LoadClassesRejected
    \/ \E r \in loadRequests : LoadStudentsResolved(r)
    \/ \E r \in loadRequests : LoadStudentsRejected(r)
    \/ \E r \in saveRequests, accepted \in SUBSET (1..2) : ServiceAccepts(r, accepted)
    \/ \E r \in saveRequests : ServiceRequiresOverride(r)
    \/ \E r \in saveRequests : TransportFails(r)
    \/ \E r \in saveRequests : MarkAttendanceResolved(r)
    \/ \E r \in saveRequests : MarkAttendanceRejected(r)

\* the controls exist only while the component is mounted
NextTeardown ==
    \/ Unmount
    \/ Arrival
    \/ mounted /\ \E value \in ClassIds : SelectClass(value)
    \/ mounted /\ \E value \in SectionIds : SelectSection(value)
    \/ mounted /\ \E value \in Dates : SetAttendanceDate(value)
    \/ mounted /\ \E studentId \in StudentIds, status \in ClickedStatuses :
                     HandleStatusChange(studentId, status)
    \/ mounted /\ \E status \in MarkAllStatuses : HandleMarkAll(status)
    \/ mounted /\ HandleSaveAttendance

SpecTeardown == Init /\ [][NextTeardown]_vars

(* ------------------------------------------------------------------ *)
(* Progress: every call that was made settles, and the rest of the     *)
(* async function that awaits it then runs                              *)
(* ------------------------------------------------------------------ *)

\* the service answers a markAttendance call, or the transport gives up
ServiceSettles ==
    \E r \in saveRequests :
        \/ \E accepted \in SUBSET (1..2) : ServiceAccepts(r, accepted)
        \/ ServiceRequiresOverride(r)
        \/ TransportFails(r)

\* the rest of handleSaveAttendance runs once its promise has settled
SaveContinues ==
    \E r \in saveRequests : MarkAttendanceResolved(r) \/ MarkAttendanceRejected(r)

\* the steps of a session in which the teacher leaves the date as it is: the
\* class and section filters, the edits, the saves, the service and the
\* continuations
NextProgress ==
    \/ LoadClassesResolved
    \/ LoadClassesRejected
    \/ \E value \in ClassIds : SelectClass(value)
    \/ \E value \in SectionIds : SelectSection(value)
    \/ \E r \in loadRequests : LoadStudentsResolved(r)
    \/ \E r \in loadRequests : LoadStudentsRejected(r)
    \/ \E studentId \in StudentIds, status \in ClickedStatuses :
           HandleStatusChange(studentId, status)
    \/ \E status \in MarkAllStatuses : HandleMarkAll(status)
    \/ HandleSaveAttendance
    \/ ServiceSettles
    \/ SaveContinues

SpecProgress ==
    Init /\ [][NextProgress]_vars /\ WF_vars(ServiceSettles) /\ WF_vars(SaveContinues)

(* ------------------------------------------------------------------ *)
(* AuthService: admin login, 2FA verification and logout                *)
(* ------------------------------------------------------------------ *)

\* the number of token pairs the server issues in a session
MaxLogins == 2

\* adminLogin up to its await: the credentials and the remember-me choice
\* are posted
AdminLoginStart(rememberMe) ==
    /\ authCall = NoCall
    /\ authCall' = [kind |-> "login", rememberMe |-> rememberMe]
    /\ UNCHANGED << tokensStored, storedUser, rememberFlag, otpSession, tokensIssued,
                    calendarVars, attendanceVars >>

\* adminLogin after its await, with data in the response: the login data is
\* returned to the login page and no token is saved
AdminLoginResolved ==
    /\ authCall.kind = "login"
    /\ authCall' = [authCall EXCEPT !.kind = "loggedIn"]
    /\ UNCHANGED << tokensStored, storedUser, rememberFlag, otpSession, tokensIssued,
                    calendarVars, attendanceVars >>

\* adminLogin throws: the request was rejected or the response has no data
AdminLoginRejected ==
    /\ authCall.kind = "login"
    /\ authCall' = NoCall
    /\ UNCHANGED << tokensStored, storedUser, rememberFlag, otpSession, tokensIssued,
                    calendarVars, attendanceVars >>

\* the login page, on the login data: it puts the session id, the user id,
\* the email and the remember-me choice in session storage and goes to the
\* OTP page
LoginPageStoresSession ==
    /\ authCall.kind = "loggedIn"
    /\ otpSession' = TRUE
    /\ rememberFlag' = IF authCall.rememberMe THEN "true" ELSE "false"
    /\ authCall' = NoCall
    /\ UNCHANGED << tokensStored, storedUser, tokensIssued, calendarVars, attendanceVars >>

\* verify2FA up to its await; the OTP page renders the form only when the
\* session keys are there
Verify2FAStart ==
    /\ authCall = NoCall
    /\ otpSession
    /\ authCall' = [kind |-> "verify", rememberMe |-> FALSE]
    /\ UNCHANGED << tokensStored, storedUser, rememberFlag, otpSession, tokensIssued,
                    calendarVars, attendanceVars >>

\* a verify2FA that keeps the tokens across sessions whatever the flag says
RememberMeAlways == TRUE

\* sessionStorage.getItem('auth_remember_me') === 'true'
RememberMe == rememberFlag = "true"

\* verify2FA after its await, with data in the response: when the data has
\* tokens they are saved with the remember-me flag, the user is saved when
\* there is one, and the flag is removed
Verify2FAResolved(hasTokens, hasUser) ==
    /\ authCall.kind = "verify"
    /\ authCall' = [kind |-> "verified", rememberMe |-> FALSE]
    /\ IF hasTokens
       THEN /\ tokensIssued < MaxLogins
            /\ tokensIssued' = tokensIssued + 1
            /\ tokensStored' = [access |-> tokensIssued + 1, persistent |-> RememberMe]
            /\ storedUser' = IF hasUser THEN "admin" ELSE storedUser
            /\ rememberFlag' = "absent"
       ELSE UNCHANGED << tokensIssued, tokensStored, storedUser, rememberFlag >>
    /\ UNCHANGED << otpSession, calendarVars, attendanceVars >>

\* verify2FA throws: the code was wrong, the request failed or the response
\* has no data
Verify2FARejected ==
    /\ authCall.kind = "verify"
    /\ authCall' = NoCall
    /\ UNCHANGED << tokensStored, storedUser, rememberFlag, otpSession, tokensIssued,
                    calendarVars, attendanceVars >>

\* handleVerified of the OTP page: with an access token in storage the
\* session keys are removed; without one the page goes back to the login
\* page and the keys stay
HandleVerified ==
    /\ authCall.kind = "verified"
    /\ authCall' = NoCall
    /\ IF tokensStored # NoTokens
       THEN otpSession' = FALSE /\ rememberFlag' = "absent"
       ELSE UNCHANGED << otpSession, rememberFlag >>
    /\ UNCHANGED << tokensStored, storedUser, tokensIssued, calendarVars, attendanceVars >>

\* handleBack of the OTP page: the session keys are removed
HandleBack ==
    /\ authCall = NoCall
    /\ otpSession
    /\ otpSession' = FALSE
    /\ rememberFlag' = "absent"
    /\ UNCHANGED << tokensStored, storedUser, authCall, tokensIssued,
                    calendarVars, attendanceVars >>

\* logout up to its await: the refresh token is read and posted
LogoutStart ==
    /\ authCall = NoCall
    /\ authCall' = [kind |-> "logout", rememberMe |-> FALSE]
    /\ UNCHANGED << tokensStored, storedUser, rememberFlag, otpSession, tokensIssued,
                    calendarVars, attendanceVars >>

\* logout after its await resolved: the tokens and the user are cleared
LogoutResolved ==
    /\ authCall.kind = "logout"
    /\ authCall' = NoCall
    /\ tokensStored' = NoTokens
    /\ storedUser' = NoUser
    /\ UNCHANGED << rememberFlag, otpSession, tokensIssued, calendarVars, attendanceVars >>

\* the post of logout rejected: the await throws, the two clear calls after
\* it are not reached and the error goes to the caller
LogoutRejected ==
    /\ authCall.kind = "logout"
    /\ authCall' = NoCall
    /\ UNCHANGED << tokensStored, storedUser, rememberFlag, otpSession, tokensIssued,
                    calendarVars, attendanceVars >>

NextAuth ==
    \/ \E rememberMe \in BOOLEAN : AdminLoginStart(rememberMe)
    \/ AdminLoginResolved
    \/ AdminLoginRejected
    \/ LoginPageStoresSession
    \/ Verify2FAStart
    \/ \E hasTokens, hasUser \in BOOLEAN : Verify2FAResolved(hasTokens, hasUser)
    \/ Verify2FARejected
    \/ HandleVerified
    \/ HandleBack
    \/ LogoutStart
    \/ LogoutResolved
    \/ LogoutRejected

SpecAuth == Init /\ [][NextAuth]_vars

(* ------------------------------------------------------------------ *)
(* ExaminationDashboard: the month navigation of the calendar          *)
(* ------------------------------------------------------------------ *)

\* how many years the calendar is taken away from this year, either way
MaxYearsAway == 4

\* the month and year handlePreviousMonth sets
PreviousMonth(month, year) ==
    IF month = 0 THEN << 11, year - 1 >> ELSE << month - 1, year >>

\* a forward step that wraps the month and keeps the year
NextMonthInSameYear(month, year) ==
    IF month = 11 THEN << 0, year >> ELSE << month + 1, year >>

\* the month and year handleNextMonth sets
NextMonth(month, year) ==
    IF month = 11 THEN << 0, year + 1 >> ELSE << month + 1, year >>

\* the years the calendar is taken to
Years == (ThisYear - MaxYearsAway)..(ThisYear + MaxYearsAway)

\* the button to the left of the month name. The effect on [currentMonth,
\* currentYear] then fetches the dashboard data, which writes neither.
HandlePreviousMonth ==
    /\ PreviousMonth(currentMonth, currentYear)[2] \in Years
    /\ currentMonth' = PreviousMonth(currentMonth, currentYear)[1]
    /\ currentYear' = PreviousMonth(currentMonth, currentYear)[2]
    /\ UNCHANGED << authVars, attendanceVars >>

\* the button to the right of the month name
HandleNextMonth ==
    /\ NextMonth(currentMonth, currentYear)[2] \in Years
    /\ currentMonth' = NextMonth(currentMonth, currentYear)[1]
    /\ currentYear' = NextMonth(currentMonth, currentYear)[2]
    /\ UNCHANGED << authVars, attendanceVars >>

NextCalendar ==
    \/ HandlePreviousMonth
    \/ HandleNextMonth

SpecCalendar == Init /\ [][NextCalendar]_vars

(* ------------------------------------------------------------------ *)
(* Properties                                                          *)
(* ------------------------------------------------------------------ *)

\* some row's status is not the one the service last confirmed for it (or
\* the default it was loaded with)
SomeRecordDiffers == \E i \in DOMAIN students : students[i].status # confirmed[i]

\* the entries of a request that the service did not accept
NotAccepted(r) == DOMAIN r.request.entries \ r.accepted

\* C1: in every reachable state the dirty indicator hasChanges is true if
\* and only if some record's status differs from the value the service last
\* confirmed for it (or from the default it was loaded with).
C1_DirtyIffDiffers == hasChanges <=> SomeRecordDiffers

\* C2: when a load of a roster completes, the buffer holds exactly one row
\* per student of the roster, in the roster's order, and nothing is dirty;
\* for the first load and for every later one.
C2_LoadLeavesCleanBuffer ==
    [][\A r \in loadRequests :
          LoadStudentsResolved(r) =>
              /\ Len(students') = Len(ServerRoster(r.classId, r.sectionId))
              /\ \A i \in DOMAIN students' :
                     students'[i].id = ServerRoster(r.classId, r.sectionId)[i].id
              /\ hasChanges' = FALSE]_vars

\* C3: handling a failed submission changes no record and does not change
\* the dirty indicator.
C3_FailureKeepsBuffer ==
    [][\A r \in saveRequests :
          MarkAttendanceRejected(r) =>
              /\ students' = students
              /\ hasChanges' = hasChanges]_vars

\* a failed submission has been handled while the buffer was dirty and a row
\* differed from what the service holds
C3_Witness ==
    /\ saveToast = SaveErrorToast("failed")
    /\ hasChanges
    /\ ~isSaving
    /\ SomeRecordDiffers

\* C4: when the service accepted only some of the entries of a request,
\* the records that were not accepted are still dirty after the response has
\* been processed.
C4_PartialAcceptKeepsDirty ==
    [][\A r \in saveRequests :
          (MarkAttendanceResolved(r) /\ NotAccepted(r) # {}) => hasChanges']_vars

\* C5: when a submission succeeds with every entry accepted, the dirty
\* indicator is cleared and the status of every row is left as it was.
C5_AllAcceptedClearsDirty ==
    [][\A r \in saveRequests :
          (MarkAttendanceResolved(r) /\ NotAccepted(r) = {}) =>
              /\ hasChanges' = FALSE
              /\ students' = students]_vars

\* a submission of a non-empty roster has succeeded, every row now has the
\* status the service confirmed, one of them not its default, and nothing is
\* dirty
C5_Witness ==
    /\ saveToast = Toast("success", "Attendance saved successfully!")
    /\ students # << >>
    /\ ~hasChanges
    /\ ~SomeRecordDiffers
    /\ \E i \in DOMAIN students :
           students[i].status #
               ServerRoster(loadedCtx.classId, loadedCtx.sectionId)[i].defaultStatus

\* C6: a submit for a Context that has a prior submission, with
\* allowOverride = false, sends no request (mayResubmit is false).
C6_NoResubmitWithoutOverride ==
    [][(HandleSaveAttendance
          /\ ~MayResubmit(MarkAttendanceRequest.allowOverride, Context \in recorded))
       => saveRequests' = saveRequests]_vars

\* C7: once the service has rejected a submission because the period is
\* already recorded and override is not permitted, the buffer is still dirty
\* and the retry of the dirty set carries allowOverride = true.
C7_OverrideRejectionAllowsRetry ==
    saveToast = SaveErrorToast("override_required") =>
        /\ hasChanges
        /\ MarkAttendanceRequest.allowOverride

\* C8: the response of a submission that arrives after the Context (class,
\* section or date) has changed is discarded: it changes neither the rows
\* nor the dirty indicator.
C8_StaleResponseDiscarded ==
    [][\A r \in saveRequests :
          ((MarkAttendanceResolved(r) \/ MarkAttendanceRejected(r))
             /\ RequestCtx(r.request) # Context)
          => UNCHANGED << students, hasChanges >>]_vars

\* C9: at most one markAttendance request is in flight at any time.
C9_OneSubmissionInFlight == Cardinality(saveRequests) <= 1

\* a request is in flight while the buffer is dirty, so that a second submit
\* would have something to send
C9_Witness ==
    /\ Cardinality(saveRequests) = 1
    /\ hasChanges
    /\ SomeRecordDiffers
    /\ requestsSent < MaxRequests

\* C10: the rows of the buffer are those fetched for the selected Context,
\* and every request sent carries the Context its entries were fetched for.
C10_BufferBelongsToContext ==
    /\ students # << >> => loadedCtx = Context
    /\ \A r \in saveRequests :
           r.request.entries # << >> => r.bufferCtx = RequestCtx(r.request)

\* the rows whose status is not the one the service last confirmed (or the
\* default they were loaded with): the dirty records of the data model
DirtyRows == {i \in DOMAIN students : students[i].status # confirmed[i]}

\* the requests sent by a step
NewRequests == saveRequests' \ saveRequests

C12_EmptySubmitSendsNothing ==
    [][(HandleSaveAttendance /\ DirtyRows = {}) => NewRequests = {}]_vars

\* dirtyEntries(): the entries a submit would send, none while the dirty
\* indicator is down
DirtyEntries(rows, dirty) ==
    IF dirty
    THEN [i \in DOMAIN rows |-> [studentId |-> rows[i].id, status |-> rows[i].status]]
    ELSE << >>

\* the entries of a sequence that are for one student
EntriesOf(entries, studentId) ==
    {j \in DOMAIN entries : entries[j].studentId = studentId}

\* C13: a status edit of a known student leaves the student's record dirty,
\* also when the status is the one it had, and the dirty set then holds the
\* student exactly once.
C13_EditedOnceInDirtySet ==
    [][\A studentId \in StudentIds, status \in CheckboxStatuses :
          HandleStatusChange(studentId, status) =>
              /\ hasChanges'
              /\ Cardinality(EntriesOf(DirtyEntries(students', hasChanges'),
                                       studentId)) = 1]_vars

\* C14: a bulk action on N rows leaves N dirty records, each with the
\* status of the action and otherwise as it was.
C14_MarkAllSetsEveryRow ==
    [][\A status \in MarkAllStatuses :
          HandleMarkAll(status) =>
              /\ hasChanges'
              /\ Len(DirtyEntries(students', hasChanges')) = Len(students)
              /\ \A i \in DOMAIN students :
                     students'[i] = [students[i] EXCEPT !.status = status]]_vars

\* the two rows of class c1, loaded as PRESENT and ABSENT, are both ABSENT
\* and dirty
C14_Witness ==
    /\ hasChanges
    /\ Len(students) = 2
    /\ students[1].id # students[2].id
    /\ confirmed = << "PRESENT", "ABSENT" >>
    /\ \A i \in DOMAIN students : students[i].status = "ABSENT"

\* DefaultResolver: the neutral status of an attendance record
Fallback == "PRESENT"

\* C15: after a load every row has the default the service supplied for its
\* student, or the fallback PRESENT where it supplied none.
C15_LoadResolvesDefaults ==
    [][\A r \in loadRequests :
          LoadStudentsResolved(r) =>
              \A i \in DOMAIN students' :
                  LET default == ServerRoster(r.classId, r.sectionId)[i].defaultStatus
                  IN  students'[i].status =
                          IF default = Undefined THEN Fallback ELSE default]_vars

C17_StatusInEnumeration == \A i \in DOMAIN students : students[i].status \in Status

\* the ids of the students of the roster the buffer was loaded from
LoadedIds ==
    {ServerRoster(loadedCtx.classId, loadedCtx.sectionId)[i].id :
        i \in DOMAIN ServerRoster(loadedCtx.classId, loadedCtx.sectionId)}

\* C18: once a roster has loaded, every student of it has exactly one row
\* in the buffer, and the buffer has no other row.
C18_OneRecordPerEntity ==
    loadedCtx.classId # NoClass =>
        /\ \A id \in LoadedIds :
               Cardinality({i \in DOMAIN students : students[i].id = id}) = 1
        /\ \A i \in DOMAIN students : students[i].id \in LoadedIds

\* C19: the buffer never holds two rows with the same student id.
C19_NoDuplicateIds ==
    \A i, j \in DOMAIN students : students[i].id = students[j].id => i = j

EditedSince(r) ==
    /\ ~r.stale
    /\ Len(students) = Len(r.request.entries)
    /\ \E i \in DOMAIN students : students[i].status # r.request.entries[i].status

\* C24: when a row was edited after the request was built, the buffer is
\* still dirty after the successful response has been processed.
C24_EditInFlightStaysDirty ==
    [][\A r \in saveRequests :
          (MarkAttendanceResolved(r) /\ EditedSince(r)) => hasChanges']_vars

\* C25: when the last outstanding roster fetch has completed, the buffer
\* holds the roster of the selected class and section.
C25_LastFetchIsForSelection ==
    [][\A r \in loadRequests :
          (LoadStudentsResolved(r) /\ loadRequests' = {}) =>
              /\ loadedCtx'.classId = selectedClassId
              /\ loadedCtx'.sectionId = selectedSectionId]_vars

\* the ids of the students of the roster of a class and section
RosterIds(classId, sectionId) ==
    {ServerRoster(classId, sectionId)[i].id : i \in DOMAIN ServerRoster(classId, sectionId)}

\* C26: every entry of every markAttendance request names a student of the
\* roster of the class and section the request carries.
C26_EntriesBelongToRequestRoster ==
    \A r \in saveRequests : \A j \in DOMAIN r.request.entries :
        r.request.entries[j].studentId \in
            RosterIds(r.request.classId, r.request.sectionId)

\* C27: isLoading is true exactly while a roster fetch is outstanding.
C27_LoadingIffFetchOutstanding == isLoading <=> (loadRequests # {})

\* C29: a status edit changes the status of the rows of the targeted student
\* and nothing else: the other rows, the fields of every row but its status,
\* the order and number of the rows and the selected class, section and date
\* are as before.
C29_EditChangesOnlyTarget ==
    [][\A studentId \in StudentIds, status \in CheckboxStatuses :
          HandleStatusChange(studentId, status) =>
              /\ Len(students') = Len(students)
              /\ \A i \in DOMAIN students :
                     /\ students'[i].id = students[i].id
                     /\ students'[i].rollNumber = students[i].rollNumber
                     /\ students'[i].firstName = students[i].firstName
                     /\ students'[i].lastName = students[i].lastName
                     /\ students[i].id # studentId =>
                            students'[i].status = students[i].status
                     /\ students[i].id = studentId => students'[i].status = status
              /\ UNCHANGED << selectedClassId, selectedSectionId, attendanceDate >>]_vars

\* of the two rows of class c1 the first has been edited and the second
\* still has the status it was loaded with; nothing has been saved
C29_Witness ==
    /\ hasChanges
    /\ Len(students) = 2
    /\ students[1].id # students[2].id
    /\ students[1].status # confirmed[1]
    /\ students[2].status = confirmed[2]
    /\ ~isSaving
    /\ saveToast = NoToast

\* C28: isSaving is true exactly while a markAttendance request is
\* outstanding, and every submission that starts ends with isSaving false
\* again, whether the request succeeds or fails.
C28_SavingFlagIsReset ==
    /\ [](isSaving <=> saveRequests # {})
    /\ isSaving ~> ~isSaving

\* a failed submission has ended: the error toast is up and the flag is down
C28_Witness ==
    /\ saveToast = SaveErrorToast("failed")
    /\ ~isSaving
    /\ saveRequests = {}
    /\ requestsSent = 2

\* C22: when a logout call finishes, with the logout request succeeded or
\* failed, token storage and user storage are empty.
C22_LogoutAlwaysClears ==
    [][(LogoutResolved \/ LogoutRejected) =>
          (tokensStored' = NoTokens /\ storedUser' = NoUser)]_vars

C30_MonthNavigation ==
    /\ [](currentMonth \in 0..11)
    /\ [][HandleNextMonth =>
             /\ currentMonth = 11 => (currentMonth' = 0 /\ currentYear' = currentYear + 1)
             /\ currentMonth # 11 =>
                    (currentMonth' = currentMonth + 1 /\ currentYear' = currentYear)
             /\ PreviousMonth(currentMonth', currentYear') =
                    << currentMonth, currentYear >>]_vars
    /\ [][HandlePreviousMonth =>
             /\ currentMonth = 0 => (currentMonth' = 11 /\ currentYear' = currentYear - 1)
             /\ currentMonth # 0 =>
                    (currentMonth' = currentMonth - 1 /\ currentYear' = currentYear)
             /\ NextMonth(currentMonth', currentYear') =
                    << currentMonth, currentYear >>]_vars

\* the calendar has been taken forward from December into January of the
\* next year
C30_Witness == currentMonth = 0 /\ currentYear = ThisYear + 1

====
